---- MODULE Spec2Model ----
(***************************************************************************)
(* Template synchronisation of the acf CLI: InitCommand and UpdateCommand   *)
(* (cli/src/ai_code_forge_cli/core/init.py, core/update.py) acting on a     *)
(* target repository, the persisted installation state and the template    *)
(* bundle.                                                                  *)
(*                                                                          *)
(* Paths are sequences of tokens ("x", ".md", "/", ".local", ...): the      *)
(* tokens are chosen so that no token is a substring of another, which      *)
(* makes Python's character-level `in`, `endswith` and `replace` on the     *)
(* paths of the model agree with the token-level operators below.           *)
(***************************************************************************)
EXTENDS Integers, Sequences, FiniteSets, TLC

\* ------------------------------------------------------------------------
\* Bounds of the model
\* ------------------------------------------------------------------------
\* number of distinct contents a template of the bundle can have
MaxContent == 2
\* number of distinct non-empty contents a customization file can have
MaxBytes == 1
\* last clock second (the clock runs 0..MaxClock)
MaxClock == 1
\* number of InitCommand.run / UpdateCommand.run calls in one behaviour
MaxRuns == 2
\* number of bundle releases in one behaviour
MaxReleases == 1
\* number of user edits of customization files in one behaviour
MaxEdits == 1
\* number of fragments a template content is made of
MaxFragments == 2
\* number of substitute_content calls on one substitutor
MaxCalls == 2
\* number of tool calls of the MCP server in one behaviour
MaxToolCalls == 2

\* ------------------------------------------------------------------------
\* Paths
\* ------------------------------------------------------------------------
\* Path.exists() is false: the file holds no content
Absent == -1
\* a file of st_size 0
Empty == 0

\* the template paths a bundle can hold, in list_template_files() order
T_CLAUDE == <<"CLAUDE", ".md", ".template">>
T_SX == <<"s", "/", "x", ".md">>
T_X == <<"x", ".md">>
TemplateOrder == <<T_CLAUDE, T_SX, T_X>>
AllTemplates == {TemplateOrder[i] : i \in 1..Len(TemplateOrder)}

\* customization files, relative to the configuration directory
L_SX == <<"s", "/", "x", ".local", ".md">>
L_X == <<"x", ".local", ".md">>
LocalFiles == {L_SX, L_X}

ClaudeDir == <<".claude">>
AcfDir == <<".acf">>
StateFile == <<".acf", "/", "state.json">>

\* pathlib's dir / name
Join(dir, name) == dir \o <<"/">> \o name

\* str.endswith
EndsWith(t, s) ==
    /\ Len(s) <= Len(t)
    /\ SubSeq(t, Len(t) - Len(s) + 1, Len(t)) = s

\* Python's `s in t` on strings
Contains(t, s) ==
    \E i \in 0..(Len(t) - Len(s)) : SubSeq(t, i + 1, i + Len(s)) = s

\* str.replace(".local", "")
RemoveLocalMarker(p) == SelectSeq(p, LAMBDA tok : tok # ".local")

\* the directories pathlib's mkdir(parents=True) makes for the parent of p
Ancestors(p) ==
    {SubSeq(p, 1, i - 1) : i \in {j \in 1..Len(p) : p[j] = "/"}}

\* claude_dir.rglob("*.local.*"): the name holds ".local" followed by ".ext"
IsLocalName(p) ==
    \E i \in 1..(Len(p) - 1) :
        /\ p[i] = ".local"
        /\ \A j \in i..Len(p) : p[j] # "/"

\* a mapping that sends the template x.md to the name of its override
MapTemplateToOverride(template_path) ==
    IF template_path = T_X
    THEN Join(ClaudeDir, L_X)
    ELSE Join(ClaudeDir,
              IF EndsWith(template_path, <<".template">>)
              THEN SubSeq(template_path, 1, Len(template_path) - 1)
              ELSE template_path)

\* TemplateDeployer._map_template_to_target, relative to the target root
MapTemplateToTarget(template_path) ==
    LET target_name ==
            IF EndsWith(template_path, <<".template">>)
            THEN SubSeq(template_path, 1, Len(template_path) - 1)
            ELSE template_path
    IN  IF template_path = T_CLAUDE
        THEN Join(ClaudeDir, <<"CLAUDE", ".md">>)
        ELSE Join(ClaudeDir, target_name)

\* the files of the target tree the model follows
DestPaths == {MapTemplateToTarget(t) : t \in AllTemplates}
LocalPaths == {Join(ClaudeDir, l) : l \in LocalFiles}
FsPaths == DestPaths \cup LocalPaths

\* ------------------------------------------------------------------------
\* Template catalog (TemplateManager) and persisted state (StateManager)
\* ------------------------------------------------------------------------
\* list_template_files(): the paths of the bundle, in catalog order
ListTemplateFiles(b) == SelectSeq(TemplateOrder, LAMBDA t : b[t] # Absent)

\* per-file content checksum: a digest, distinct for distinct contents
FileChecksum(c) == <<"sha256", c>>

\* get_template_info(path).checksum
TemplateInfo(b, t) == FileChecksum(b[t])

\* calculate_bundle_checksum(): digest of the per-file checksums in order
BundleChecksum(b) ==
    LET ts == ListTemplateFiles(b)
    IN  [i \in 1..Len(ts) |-> TemplateInfo(b, ts[i])]

\* checksum[:8]
ShortVersion(ck) == [prefix8 |-> ck]

\* the state load_state() returns when nothing was saved
NoInstallation == [present |-> FALSE, template_version |-> ShortVersion(<<>>),
                   installed_at |-> 0]
DefaultState == [installation |-> NoInstallation, checksum |-> <<>>,
                 files |-> <<>>]

\* the aggregate checksum of the files a state records
RecordedChecksum(st) ==
    LET ts == SelectSeq(TemplateOrder, LAMBDA t : t \in DOMAIN st.files)
    IN  [i \in 1..Len(ts) |-> st.files[ts[i]]]

\* ------------------------------------------------------------------------
\* UpdateAnalyzer
\* ------------------------------------------------------------------------
\* the paths below the configuration directory, relative to it
RelPaths == {SubSeq(p, 3, Len(p)) : p \in FsPaths}

\* _analyze_conflicts without the st_size test of line 130
AnalyzeConflictsAnySize(fs, dirs, templates_to_update) ==
    LET preserved ==
            IF ClaudeDir \in dirs
            THEN {r \in RelPaths :
                    /\ fs[Join(ClaudeDir, r)] # Absent
                    /\ IsLocalName(r)
                    /\ \E t \in templates_to_update :
                            Contains(t, RemoveLocalMarker(r))}
            ELSE {}
    IN  [conflicts |-> preserved, preserved |-> preserved]

\* UpdateAnalyzer._analyze_conflicts
AnalyzeConflicts(fs, dirs, templates_to_update) ==
    LET local_files ==
            IF ClaudeDir \in dirs
            THEN {r \in RelPaths :
                    fs[Join(ClaudeDir, r)] # Absent /\ IsLocalName(r)}
            ELSE {}
        preserved ==
            {r \in local_files :
                LET base_name == RemoveLocalMarker(r)
                IN  \E t \in templates_to_update :
                        Contains(t, base_name) \/ EndsWith(t, base_name)}
        conflicts ==
            {r \in preserved : fs[Join(ClaudeDir, r)] > Empty}
    IN  [conflicts |-> conflicts, preserved |-> preserved]

NoAnalysis(status) ==
    [status |-> status, needs_update |-> FALSE,
     current_version |-> ShortVersion(<<>>),
     available_version |-> ShortVersion(<<>>),
     new_templates |-> {}, updated_templates |-> {},
     removed_templates |-> {}, conflicts |-> {},
     preserved_customizations |-> {}]

\* the comparison of line 63 the wrong way round
ChecksumsDiffer(current_checksum, available_checksum) ==
    current_checksum # available_checksum

\* analyze_changes, line 63: no update is needed
ChecksumsMatch(current_checksum, available_checksum) ==
    current_checksum = available_checksum

\* analyze_changes, line 75
NewTemplates(available_set, current_templates) ==
    available_set \ current_templates

\* analyze_changes, line 78
RemovedTemplates(available_set, current_templates) ==
    current_templates \ available_set

\* the loop of lines 81-87 without its comparison of the checksums
UpdatedTemplatesUncompared(st, b, available_set) ==
    {t \in available_set : t \in DOMAIN st.files}

\* analyze_changes, lines 81-87
UpdatedTemplates(st, b, available_set) ==
    {t \in available_set :
        /\ t \in DOMAIN st.files
        /\ st.files[t] # TemplateInfo(b, t)}

\* UpdateAnalyzer.analyze_changes
AnalyzeChanges(st, b, fs, dirs) ==
    LET available_templates == ListTemplateFiles(b)
        available_set ==
            {available_templates[i] : i \in 1..Len(available_templates)}
        current_checksum == st.checksum
        available_checksum == BundleChecksum(b)
        current_templates == DOMAIN st.files
        new_templates == NewTemplates(available_set, current_templates)
        removed_templates == RemovedTemplates(available_set, current_templates)
        updated_templates == UpdatedTemplates(st, b, available_set)
        c == AnalyzeConflicts(fs, dirs, new_templates \cup updated_templates)
    IN  IF ~st.installation.present
        THEN NoAnalysis("not_initialized")
        ELSE IF ChecksumsMatch(current_checksum, available_checksum)
        THEN [NoAnalysis("up_to_date") EXCEPT
                !.current_version = ShortVersion(current_checksum),
                !.available_version = ShortVersion(available_checksum)]
        ELSE [status |-> "update_available", needs_update |-> TRUE,
              current_version |-> ShortVersion(current_checksum),
              available_version |-> ShortVersion(available_checksum),
              new_templates |-> new_templates,
              updated_templates |-> updated_templates,
              removed_templates |-> removed_templates,
              conflicts |-> c.conflicts,
              preserved_customizations |-> c.preserved]

\* ------------------------------------------------------------------------
\* CustomizationPreserver
\* ------------------------------------------------------------------------
\* the writes of a run, in the order they happen
Event(op, path) == [op |-> op, path |-> path]

\* backup_dir / file_path, for the backup directory named after second now
BackupFile(now, file_path) == <<now, file_path>>

\* the copy loop reading the deployed template a customization overrides
\* in place of the customization itself
RECURSIVE WriteBackupsOfBase(_, _, _, _)
WriteBackupsOfBase(bk, fs, order, now) ==
    IF order = <<>>
    THEN bk
    ELSE WriteBackupsOfBase(
            [bk EXCEPT ![BackupFile(now, Head(order))] =
                IF Join(ClaudeDir, RemoveLocalMarker(Head(order)))
                        \in DOMAIN fs
                THEN fs[Join(ClaudeDir, RemoveLocalMarker(Head(order)))]
                ELSE Absent],
            fs, Tail(order), now)

\* the copy loop of preserve_during_update: backup_file.write_bytes(...)
RECURSIVE WriteBackups(_, _, _, _)
WriteBackups(bk, fs, order, now) ==
    IF order = <<>>
    THEN bk
    ELSE WriteBackups(
            [bk EXCEPT ![BackupFile(now, Head(order))] =
                            fs[Join(ClaudeDir, Head(order))]],
            fs, Tail(order), now)

\* CustomizationPreserver.preserve_during_update: the world after the
\* backups, the mapping original path -> backup file and the writes made
PreserveDuringUpdate(w, files_to_preserve, now) ==
    LET existing ==
            {r \in files_to_preserve : w.fs[Join(ClaudeDir, r)] # Absent}
        order == SelectSeq(<<L_SX, L_X>>, LAMBDA r : r \in existing)
    IN  [w |-> [w EXCEPT
                 !.dirs = @ \cup (IF existing = {} THEN {} ELSE {AcfDir}),
                 !.backups = WriteBackups(@, w.fs, order, now)],
         backups |-> [r \in existing |-> BackupFile(now, r)],
         trace |-> [i \in 1..Len(order) |-> Event("backup", order[i])]]

\* CustomizationPreserver.restore_customizations
RestoreCustomizations(w, backups) ==
    LET restorable ==
            {r \in DOMAIN backups : w.backups[backups[r]] # Absent}
        order == SelectSeq(<<L_SX, L_X>>, LAMBDA r : r \in restorable)
    IN  [w |-> [w EXCEPT
                 !.dirs = @ \cup UNION {Ancestors(Join(ClaudeDir, r)) :
                                            r \in restorable},
                 !.fs = [p \in DOMAIN @ |->
                            IF \E r \in restorable : p = Join(ClaudeDir, r)
                            THEN w.backups[backups[SubSeq(p, 3, Len(p))]]
                            ELSE @[p]]],
         restored |-> restorable,
         trace |-> [i \in 1..Len(order) |-> Event("restore", order[i])]]

\* ------------------------------------------------------------------------
\* TemplateDeployer
\* ------------------------------------------------------------------------
\* the content written for a template of content c, after substitution
RenderBase == 10
Render(c) == RenderBase + c

Error(kind, path) == [kind |-> kind, path |-> path]

\* the directories deploy_templates creates before the loop
StandardDirs ==
    {ClaudeDir,
     Join(ClaudeDir, <<"agents">>),
     Join(Join(ClaudeDir, <<"agents">>), <<"foundation">>),
     Join(Join(ClaudeDir, <<"agents">>), <<"specialists">>),
     Join(ClaudeDir, <<"commands">>)}

\* one event per directory that mkdir actually creates
MkdirTrace(dirs, wanted) ==
    IF wanted \subseteq dirs THEN <<>> ELSE <<Event("mkdir", <<>>)>>

\* the loop of deploy_templates leaving at the first template that fails
RECURSIVE DeployLoopAborting(_, _, _, _, _, _)
DeployLoopAborting(acc, b, ts, dry_run, unreadable, unwritable) ==
    IF ts = <<>>
    THEN acc
    ELSE IF \/ Head(ts) \in unreadable
            \/ ~dry_run /\ MapTemplateToTarget(Head(ts)) \in unwritable
    THEN [acc EXCEPT !.errors = Append(@, Error("error_deploying", Head(ts)))]
    ELSE DeployLoopAborting(
            IF dry_run
            THEN [acc EXCEPT
                    !.files_deployed =
                        Append(@, MapTemplateToTarget(Head(ts))),
                    !.deployed_files = Append(@, Head(ts))]
            ELSE [acc EXCEPT
                    !.dirs = @ \cup Ancestors(MapTemplateToTarget(Head(ts))),
                    !.fs[MapTemplateToTarget(Head(ts))] = Render(b[Head(ts)]),
                    !.trace = @ \o <<Event("deploy",
                                           MapTemplateToTarget(Head(ts)))>>,
                    !.files_deployed =
                        Append(@, MapTemplateToTarget(Head(ts))),
                    !.deployed_files = Append(@, Head(ts))],
            b, Tail(ts), dry_run, unreadable, unwritable)

\* the loop of deploy_templates (init.py lines 185-209) over the catalog
RECURSIVE DeployLoop(_, _, _, _, _, _)
DeployLoop(acc, b, ts, dry_run, unreadable, unwritable) ==
    IF ts = <<>>
    THEN acc
    ELSE
      LET template_path == Head(ts)
          target_file == MapTemplateToTarget(template_path)
          next ==
            IF template_path \in unreadable
            THEN [acc EXCEPT !.errors =
                      Append(@, Error("could_not_read", template_path))]
            ELSE IF dry_run
            THEN [acc EXCEPT
                      !.files_deployed = Append(@, target_file),
                      !.deployed_files = Append(@, template_path)]
            ELSE IF target_file \in unwritable
            THEN [acc EXCEPT
                      !.dirs = @ \cup Ancestors(target_file),
                      !.trace = @ \o MkdirTrace(acc.dirs,
                                                Ancestors(target_file)),
                      !.errors =
                          Append(@, Error("error_deploying", template_path))]
            ELSE [acc EXCEPT
                      !.dirs = @ \cup Ancestors(target_file),
                      !.fs[target_file] = Render(b[template_path]),
                      !.trace = @ \o MkdirTrace(acc.dirs,
                                                Ancestors(target_file))
                                  \o <<Event("deploy", target_file)>>,
                      !.files_deployed = Append(@, target_file),
                      !.deployed_files = Append(@, template_path)]
      IN  DeployLoop(next, b, Tail(ts), dry_run, unreadable, unwritable)

\* TemplateDeployer.deploy_templates
DeployTemplates(w, b, dry_run, unreadable, unwritable) ==
    LET dirs0 == IF dry_run THEN w.dirs ELSE w.dirs \cup StandardDirs
        acc0 == [dirs |-> dirs0, fs |-> w.fs,
                 trace |-> IF dry_run THEN <<>>
                           ELSE MkdirTrace(w.dirs, StandardDirs),
                 files_deployed |-> <<>>, deployed_files |-> <<>>,
                 errors |-> <<>>]
        acc == DeployLoop(acc0, b, ListTemplateFiles(b), dry_run,
                          unreadable, unwritable)
    IN  [w |-> [w EXCEPT !.dirs = acc.dirs, !.fs = acc.fs],
         files_deployed |-> acc.files_deployed,
         deployed_files |-> acc.deployed_files,
         errors |-> acc.errors,
         trace |-> acc.trace]

\* ------------------------------------------------------------------------
\* InitCommand
\* ------------------------------------------------------------------------
\* the result dictionary of a command, before the command fills it in
NewResults(cmd, dry_run, force, preserve) ==
    [cmd |-> cmd, dry_run |-> dry_run, force |-> force,
     preserve |-> preserve,
     success |-> FALSE, message |-> "",
     analysis |-> NoAnalysis("unknown"),
     files_created |-> <<>>, files_updated |-> <<>>,
     files_preserved |-> {},
     warnings |-> <<>>, errors |-> <<>>,
     trace |-> <<>>]

SeqToSet(q) == {q[i] : i \in 1..Len(q)}

\* InitCommand._initialize_state followed by StateManager.save_state
InitializeState(b, deployed_files, now) ==
    [installation |->
        [present |-> TRUE,
         template_version |-> ShortVersion(BundleChecksum(b)),
         installed_at |-> now],
     checksum |-> BundleChecksum(b),
     files |-> [t \in SeqToSet(deployed_files) |-> TemplateInfo(b, t)]]

\* the check of line 296 left out
NoExistingConfiguration(w) == FALSE

\* InitCommand.run, line 296: has_acf or has_claude
ExistingConfiguration(w) == AcfDir \in w.dirs \/ ClaudeDir \in w.dirs

\* InitCommand.run
InitRun(w, b, now, target, force, dry_run, unreadable, unwritable) ==
    LET results == NewResults("init", dry_run, force, FALSE)
        mk == [w |-> IF dry_run THEN w
                     ELSE [w EXCEPT !.dirs = @ \cup {AcfDir}],
               trace |-> IF dry_run THEN <<>>
                         ELSE MkdirTrace(w.dirs, {AcfDir}),
               files_created |-> IF dry_run THEN <<>>
                                 ELSE <<AcfDir \o <<"/">> >>]
        deploy_results ==
            DeployTemplates(mk.w, b, dry_run, unreadable, unwritable)
        after ==
            IF dry_run
            THEN deploy_results.w
            ELSE [deploy_results.w EXCEPT
                    !.state = InitializeState(
                                b, deploy_results.deployed_files, now)]
    IN  IF target = "missing"
        THEN [w |-> w,
              result |-> [results EXCEPT
                  !.errors = <<Error("target_does_not_exist", <<>>)>>]]
        ELSE IF target # "dir"
        THEN [w |-> w,
              result |-> [results EXCEPT
                  !.errors = <<Error("target_not_a_directory", <<>>)>>]]
        ELSE IF ExistingConfiguration(w) /\ ~force
        THEN [w |-> w,
              result |-> [results EXCEPT
                  !.errors = <<Error("already_exists", <<>>)>>]]
        ELSE [w |-> after,
              result |-> [results EXCEPT
                  !.files_created =
                      mk.files_created \o deploy_results.files_deployed
                      \o (IF dry_run THEN <<>> ELSE <<StateFile>>),
                  !.errors = deploy_results.errors,
                  !.warnings = deploy_results.errors,
                  !.message =
                      IF deploy_results.errors # <<>>
                      THEN "Initialization completed with errors"
                      ELSE "Repository initialized successfully",
                  !.success = TRUE,
                  !.trace = mk.trace \o deploy_results.trace
                      \o (IF dry_run THEN <<>>
                          ELSE <<Event("state", StateFile)>>)]]

\* ------------------------------------------------------------------------
\* UpdateCommand
\* ------------------------------------------------------------------------
\* _perform_update, lines 379-382
TemplatesToUpdate(analysis) ==
    analysis.new_templates \cup analysis.updated_templates

\* UpdateCommand._perform_update
PerformUpdate(w, b, analysis, dry_run, unreadable, unwritable) ==
    LET templates_to_update == TemplatesToUpdate(analysis)
        deploy_results ==
            DeployTemplates(w, b, dry_run, unreadable, unwritable)
    IN  [w |-> deploy_results.w,
         files_updated |->
            SelectSeq(deploy_results.files_deployed,
                      LAMBDA f : \E template \in templates_to_update :
                                    Contains(f, template)),
         errors |-> deploy_results.errors,
         trace |-> deploy_results.trace]

\* _update_state leaving templates.checksum as it was
UpdateStateKeepChecksum(st, b, analysis, now) ==
    [installation |->
        IF st.installation.present
        THEN [st.installation EXCEPT
                !.template_version = analysis.available_version,
                !.installed_at = now]
        ELSE st.installation,
     checksum |-> st.checksum,
     files |-> [t \in SeqToSet(ListTemplateFiles(b)) |-> TemplateInfo(b, t)]]

\* _update_state keeping the records of the templates no longer available
UpdateStateKeepRemoved(st, b, analysis, now) ==
    [installation |->
        [st.installation EXCEPT
            !.template_version = analysis.available_version,
            !.installed_at = now],
     checksum |-> BundleChecksum(b),
     files |-> [t \in DOMAIN st.files \cup SeqToSet(ListTemplateFiles(b)) |->
                    IF b[t] # Absent THEN TemplateInfo(b, t)
                    ELSE st.files[t]]]

\* UpdateCommand._update_state, inside StateManager.atomic_update
UpdateState(st, b, analysis, now) ==
    LET available_templates == ListTemplateFiles(b)
    IN  [installation |->
            IF st.installation.present
            THEN [st.installation EXCEPT
                    !.template_version = analysis.available_version,
                    !.installed_at = now]
            ELSE st.installation,
         checksum |-> BundleChecksum(b),
         files |-> [t \in SeqToSet(available_templates) |->
                        TemplateInfo(b, t)]]

\* the gate with the force flag read the wrong way round
ConflictGateInverted(analysis, force) == analysis.conflicts # {} /\ force

\* the state written whenever the deploy pass had no error, dry run or not
ShouldUpdateStateInDryRun(dry_run, errors) == errors = <<>>

\* the state written after a deploy pass that recorded errors
ShouldUpdateStateDespiteErrors(dry_run, errors) == ~dry_run

\* UpdateCommand.run, line 292: the update stops on conflicts
ConflictGate(analysis, force) == analysis.conflicts # {} /\ ~force

\* UpdateCommand.run, line 326: the state is written
ShouldUpdateState(dry_run, errors) == ~dry_run /\ errors = <<>>

\* UpdateCommand.run, lines 293-299: the warnings of a conflict abort
ConflictWarnings(conflicts) ==
    LET order == SelectSeq(<<L_SX, L_X>>, LAMBDA r : r \in conflicts)
    IN  [i \in 1..Len(order) |-> Error("conflict", order[i])]
        \o <<Error("use_force", <<>>)>>

\* UpdateAnalyzer.analyze_changes persisting the state it loaded
AnalyzeCallSavingState(w, b) ==
    [w |-> [w EXCEPT !.dirs = @ \cup {AcfDir}],
     result |-> [NewResults("analyze", FALSE, FALSE, FALSE) EXCEPT
                    !.analysis = AnalyzeChanges(w.state, b, w.fs, w.dirs)]]

\* a call of UpdateAnalyzer.analyze_changes on its own: the world it
\* leaves and the dictionary it returns
AnalyzeCall(w, b) ==
    [w |-> w,
     result |-> [NewResults("analyze", FALSE, FALSE, FALSE) EXCEPT
                    !.analysis = AnalyzeChanges(w.state, b, w.fs, w.dirs)]]

\* UpdateCommand.run
UpdateRun(w, b, now, dry_run, force, preserve_customizations, unreadable, unwritable) ==
    LET results == NewResults("update", dry_run, force,
                              preserve_customizations)
        analysis == AnalyzeChanges(w.state, b, w.fs, w.dirs)
        analysed == [results EXCEPT !.analysis = analysis]
        wants_preserve ==
            preserve_customizations /\ analysis.preserved_customizations # {}
        pres ==
            IF wants_preserve /\ ~dry_run
            THEN PreserveDuringUpdate(w, analysis.preserved_customizations,
                                      now)
            ELSE [w |-> w, backups |-> <<>>, trace |-> <<>>]
        update_results ==
            PerformUpdate(pres.w, b, analysis, dry_run, unreadable,
                          unwritable)
        rest ==
            IF preserve_customizations /\ DOMAIN pres.backups # {} /\ ~dry_run
            THEN RestoreCustomizations(update_results.w, pres.backups)
            ELSE [w |-> update_results.w, restored |-> {}, trace |-> <<>>]
        writes_state == ShouldUpdateState(dry_run, update_results.errors)
        after ==
            IF writes_state
            THEN [rest.w EXCEPT
                    !.state = UpdateState(@, b, analysis, now)]
            ELSE rest.w
    IN  IF analysis.status = "not_initialized"
        THEN [w |-> w,
              result |-> [analysed EXCEPT
                  !.errors = <<Error("not_initialized", <<>>)>>]]
        ELSE IF analysis.status = "up_to_date"
        THEN [w |-> w,
              result |-> [analysed EXCEPT
                  !.success = TRUE,
                  !.message = "Templates are already up to date"]]
        ELSE IF ~analysis.needs_update
        THEN [w |-> w,
              result |-> [analysed EXCEPT
                  !.success = TRUE, !.message = "No updates needed"]]
        ELSE IF ConflictGate(analysis, force)
        THEN [w |-> w,
              result |-> [analysed EXCEPT
                  !.warnings = ConflictWarnings(analysis.conflicts),
                  !.errors = <<Error("conflicts_detected", <<>>)>>]]
        ELSE [w |-> after,
              result |-> [analysed EXCEPT
                  !.files_preserved =
                      IF wants_preserve
                      THEN analysis.preserved_customizations ELSE {},
                  !.files_updated = update_results.files_updated,
                  !.errors = update_results.errors,
                  !.success = TRUE,
                  !.message = IF dry_run THEN "Would update templates"
                              ELSE "Updated templates",
                  !.trace = pres.trace \o update_results.trace
                      \o rest.trace
                      \o (IF writes_state
                          THEN <<Event("state", StateFile)>> ELSE <<>>)]]

\* ------------------------------------------------------------------------
\* ParameterSubstitutor (init.py lines 102-138)
\* ------------------------------------------------------------------------
\* Contents and values are sequences of characters; a parameter name is
\* the sequence of the characters between the braces.

\* the characters of the class [A-Z_] that occur in the model
Upper == {"A", "B"}

\* the value None of a parameter (no string of the model holds this element)
None == <<"None">>

\* match.group(0) for a name: {{NAME}}
Placeholder(param_name) == <<"{", "{">> \o param_name \o <<"}", "}">>

\* the length of the run of [A-Z_] characters of s that starts at i
RECURSIVE NameRun(_, _)
NameRun(s, i) ==
    IF i <= Len(s) /\ s[i] \in Upper THEN 1 + NameRun(s, i + 1) ELSE 0

\* the pattern \{\{([A-Z_]+)\}\} tried at position i of s: the length of
\* group 1, or 0 when there is no match at i
MatchAt(s, i) ==
    IF i + 1 <= Len(s) /\ s[i] = "{" /\ s[i + 1] = "{"
    THEN LET n == NameRun(s, i + 2)
         IN  IF /\ n > 0
                /\ i + n + 3 <= Len(s)
                /\ s[i + n + 2] = "}"
                /\ s[i + n + 3] = "}"
             THEN n
             ELSE 0
    ELSE 0

\* re.finditer: group 1 of the non-overlapping matches in s from i on,
\* leftmost first
RECURSIVE FindIter(_, _)
FindIter(s, i) ==
    IF i > Len(s)
    THEN <<>>
    ELSE IF MatchAt(s, i) > 0
    THEN <<SubSeq(s, i + 2, i + 1 + MatchAt(s, i))>>
            \o FindIter(s, i + MatchAt(s, i) + 4)
    ELSE FindIter(s, i + 1)

\* str.replace(old, new): every non-overlapping occurrence, left to right
RECURSIVE Replace(_, _, _)
Replace(s, old, new) ==
    IF Len(s) < Len(old)
    THEN s
    ELSE IF SubSeq(s, 1, Len(old)) = old
    THEN new \o Replace(SubSeq(s, Len(old) + 1, Len(s)), old, new)
    ELSE <<Head(s)>> \o Replace(Tail(s), old, new)

\* the loop of substitute_content over the matches (lines 125-132);
\* str.replace raises TypeError when the value is None
RECURSIVE SubstituteLoop(_, _, _)
SubstituteLoop(acc, matches, parameters) ==
    IF matches = <<>> \/ acc.raised
    THEN acc
    ELSE IF Head(matches) \notin DOMAIN parameters
    THEN SubstituteLoop(acc, Tail(matches), parameters)
    ELSE IF parameters[Head(matches)] = None
    THEN [acc EXCEPT !.raised = TRUE]
    ELSE SubstituteLoop(
            [acc EXCEPT
                !.result = Replace(@, Placeholder(Head(matches)),
                                   parameters[Head(matches)]),
                !.substituted_params = @ \cup {Head(matches)}],
            Tail(matches), parameters)

\* ParameterSubstitutor.substitute_content on a substitutor whose record
\* of substituted names is substituted_params
SubstituteContent(parameters, substituted_params, content) ==
    SubstituteLoop([result |-> content,
                    substituted_params |-> substituted_params,
                    raised |-> FALSE],
                   FindIter(content, 1), parameters)

\* the order of the characters in Python's comparison of strings
CharRank(c) ==
    CASE c = " " -> 0
      [] c = "A" -> 1
      [] c = "B" -> 2
      [] c = "a" -> 3
      [] c = "t" -> 4
      [] c = "{" -> 5
      [] c = "}" -> 6
      [] OTHER -> 7

\* s < t for two strings
RECURSIVE StrLess(_, _)
StrLess(s, t) ==
    IF t = <<>> THEN FALSE
    ELSE IF s = <<>> THEN TRUE
    ELSE IF Head(s) # Head(t) THEN CharRank(Head(s)) < CharRank(Head(t))
    ELSE StrLess(Tail(s), Tail(t))

\* sorted(list(names))
RECURSIVE Sorted(_)
Sorted(names) ==
    IF names = {}
    THEN <<>>
    ELSE LET least == CHOOSE n \in names :
                        \A m \in names \ {n} : StrLess(n, m)
         IN  <<least>> \o Sorted(names \ {least})

\* ParameterSubstitutor.get_substituted_parameters
GetSubstitutedParameters(substituted_params) == Sorted(substituted_params)

\* ------------------------------------------------------------------------
\* Template parameters (init.py lines 28-84, 305-319, 377-397;
\* update.py lines 357-373, 398-409)
\* ------------------------------------------------------------------------
\* Python's truth test of an Optional[str]: None and "" are false
Falsy(v) == v = None \/ v = <<>>

\* Python's `a or b`
Or(a, b) == IF Falsy(a) THEN b ELSE a

\* what git remote get-url origin gives for a github.com remote
RemoteOwner == <<"acme">>
RemoteName == <<"widget">>
RemoteUrl == <<"https://github.com/", "acme", "/", "widget">>

\* RepositoryDetector.detect_github_info: gh repo view when it succeeds
\* (and then nothing else), otherwise the origin remote when it is a GitHub
\* URL, then the directory name for a project name still missing
DetectGithubInfo(env) ==
    IF env.gh.ok
    THEN [github_owner |-> env.gh.owner, project_name |-> env.gh.name,
          repo_url |-> env.gh.url]
    ELSE LET info == IF env.remote
                     THEN [github_owner |-> RemoteOwner,
                           project_name |-> RemoteName,
                           repo_url |-> RemoteUrl]
                     ELSE [github_owner |-> None, project_name |-> None,
                           repo_url |-> None]
         IN  IF Falsy(info.project_name)
             THEN [info EXCEPT !.project_name = env.dir_name]
             ELSE info

\* InitCommand.run lines 308-312: the command-line values replace the
\* detected ones when they are given
OverrideWith(repo_info, github_owner, project_name) ==
    [repo_info EXCEPT
        !.github_owner = IF Falsy(github_owner) THEN @ ELSE github_owner,
        !.project_name = IF Falsy(project_name) THEN @ ELSE project_name]

\* InitCommand._prepare_parameters: `repo_info.get(key) or fallback`
PrepareParameters(repo_info) ==
    [GITHUB_OWNER |-> Or(repo_info.github_owner, <<"unknown">>),
     PROJECT_NAME |-> Or(repo_info.project_name, <<"unknown">>),
     REPO_URL |-> Or(repo_info.repo_url, <<"{{", "REPO_URL", "}}">>)]

\* UpdateCommand._perform_update with an installation recorded:
\* `repo_info.get(key, fallback)`; detect_github_info always returns the
\* three keys, so the fallback of dict.get is never taken
UpdateParameters(repo_info) ==
    [GITHUB_OWNER |-> repo_info.github_owner,
     PROJECT_NAME |-> repo_info.project_name,
     REPO_URL |-> repo_info.repo_url]

\* ------------------------------------------------------------------------
\* The structured tools of the OpenAI MCP server (server.py lines 47-329)
\* ------------------------------------------------------------------------
StructuredTools ==
    {"extract_data", "analyze_code", "create_configuration_task",
     "analyze_sentiment", "custom_structured_query"}

\* what the client method of a call does: it raises, or it returns an
\* object that has or lacks the key "error" and whose "data" is missing,
\* null, a string or an object
ClientResponses ==
    {[kind |-> "raise", has_error |-> FALSE, data |-> "missing"]}
    \cup [kind : {"object"}, has_error : BOOLEAN,
          data : {"missing", "null", "string", "object"}]

\* the text in front of result['error'] in the tool's `if "error" in result`
ErrorPrefix(tool) ==
    CASE tool = "extract_data" -> "Error extracting data: "
      [] tool = "analyze_code" -> "Error analyzing code: "
      [] tool = "create_configuration_task" ->
            "Error creating configuration task: "
      [] tool = "analyze_sentiment" -> "Error analyzing sentiment: "
      [] OTHER -> "Error in custom query: "

\* the text in front of str(e) in the tool's `except Exception as e`
ExceptionPrefix(tool) ==
    CASE tool = "extract_data" -> "Error during data extraction: "
      [] tool = "analyze_code" -> "Error during code analysis: "
      [] tool = "create_configuration_task" ->
            "Error creating configuration task: "
      [] tool = "analyze_sentiment" -> "Error during sentiment analysis: "
      [] OTHER -> "Error during custom structured query: "

\* the logger.debug line after the error test evaluates
\* result['data'].get(...): KeyError or AttributeError unless data is an
\* object; custom_structured_query has no such line
DebugLineRaises(tool, response) ==
    tool # "custom_structured_query" /\ response.data # "object"

\* a tool body whose except clause lets the exception through
ToolReturnUncaught(tool, response) ==
    IF response.kind = "raise" \/ (~response.has_error
                                   /\ DebugLineRaises(tool, response))
    THEN [raised |-> TRUE, kind |-> "none", prefix |-> ""]
    ELSE IF response.has_error
    THEN [raised |-> FALSE, kind |-> "text", prefix |-> ErrorPrefix(tool)]
    ELSE [raised |-> FALSE, kind |-> "json", prefix |-> ""]

\* what a structured tool returns once its client call has ended
ToolReturn(tool, response) ==
    IF response.kind = "raise"
    THEN [raised |-> FALSE, kind |-> "text", prefix |-> ExceptionPrefix(tool)]
    ELSE IF response.has_error
    THEN [raised |-> FALSE, kind |-> "text", prefix |-> ErrorPrefix(tool)]
    ELSE IF DebugLineRaises(tool, response)
    THEN [raised |-> FALSE, kind |-> "text", prefix |-> ExceptionPrefix(tool)]
    ELSE [raised |-> FALSE, kind |-> "json", prefix |-> ""]

\* ------------------------------------------------------------------------
\* The state machine: a target repository, the bundle and the commands
\* ------------------------------------------------------------------------
VARIABLES
    target,     \* what target_path is: "dir", "file" or "missing"
    dirs,       \* the directories of the target tree
    fs,         \* the files of the target tree: path -> content or Absent
    backups,    \* the files below .acf/backups: <<second, path>> -> content
    state,      \* the persisted installation state (.acf/state.json)
    bundle,     \* the template bundle: template path -> content or Absent
    clock,      \* datetime.now(), in seconds
    result,     \* the result dictionary of the last command
    runs,       \* number of commands run
    releases,   \* number of bundle releases
    edits,      \* number of user edits
    quiet,      \* no release and no edit since the last command
    prev        \* the command run directly before the last one

\* a ParameterSubstitutor and its last call
VARIABLES
    parameters,         \* self.parameters: name -> value
    substituted_params, \* self.substituted_params
    content,            \* the argument of the last substitute_content
    outcome,            \* what the last call returned, or that it raised
    calls               \* number of substitute_content calls

main == <<target, dirs, fs, backups, state, bundle, clock, result,
          runs, releases, edits, quiet, prev>>

substitutor == <<parameters, substituted_params, content, outcome, calls>>

\* the OpenAI structured-output MCP server
VARIABLES
    openai_client,      \* the module-level client: "None" or "client"
    tool_calls          \* the tool calls: slot -> tool, position, result

mcp == <<openai_client, tool_calls>>

\* the template parameters init and update build for one repository
VARIABLES
    environment,        \* what gh, git remote and the directory name give
    init_call,          \* the parameters InitCommand.run built
    update_call         \* the parameters _perform_update built

params == <<environment, init_call, update_call>>

\* the variables the commands on a target leave alone
aux == <<substitutor, mcp, params>>

vars == <<main, aux>>

World == [dirs |-> dirs, fs |-> fs, backups |-> backups, state |-> state]

BackupKeys == (0..MaxClock) \X LocalFiles

\* what can go wrong in one deploy pass: one template that cannot be read
\* or one destination that cannot be written
NoFault == [unreadable |-> {}, unwritable |-> {}]
Faults ==
    {NoFault}
    \cup {[unreadable |-> {T_SX}, unwritable |-> {}],
          [unreadable |-> {}, unwritable |-> {MapTemplateToTarget(T_SX)}]}

\* a target nothing was deployed to
FreshWorld ==
    [dirs |-> {}, fs |-> [p \in FsPaths |-> Absent],
     backups |-> [k \in BackupKeys |-> Absent], state |-> DefaultState]

\* the bundle of the first release
FirstBundles ==
    {[t \in AllTemplates |-> 1],
     [t \in AllTemplates |-> IF t = T_X THEN Absent ELSE 1]}

\* a substitutor nothing was asked of
NoOutcome == [raised |-> FALSE, result |-> <<>>, listed |-> <<>>]

SubstitutorIdle ==
    /\ parameters = <<>>
    /\ substituted_params = {}
    /\ content = <<>>
    /\ outcome = NoOutcome
    /\ calls = 0

\* a tool call slot nothing was started in
NoCall ==
    [tool |-> "none", pc |-> "idle", concurrent |-> FALSE,
     response |-> [kind |-> "none", has_error |-> FALSE, data |-> "missing"],
     returned |-> [raised |-> FALSE, kind |-> "none", prefix |-> ""]]

McpIdle ==
    /\ openai_client = "None"
    /\ tool_calls = [i \in 1..MaxToolCalls |-> NoCall]

\* a command that has not built its parameters
NoParameters ==
    [called |-> FALSE, github_owner |-> None, project_name |-> None,
     parameters |-> [GITHUB_OWNER |-> None, PROJECT_NAME |-> None,
                     REPO_URL |-> None]]

\* a directory where gh and git remote give nothing
NoEnvironment ==
    [gh |-> [ok |-> FALSE, owner |-> None, name |-> None, url |-> None],
     remote |-> FALSE, dir_name |-> <<>>]

ParamsIdle ==
    /\ environment = NoEnvironment
    /\ init_call = NoParameters
    /\ update_call = NoParameters

AuxIdle == SubstitutorIdle /\ McpIdle /\ ParamsIdle

\* a behaviour starts from a fresh target or from a target that `acf init`
\* initialized from the first release
Init ==
    /\ AuxIdle
    /\ target \in {"dir", "file", "missing"}
    /\ bundle \in FirstBundles
    /\ clock = 0
    /\ \E w \in {FreshWorld} \cup
                (IF target = "dir"
                 THEN {InitRun(FreshWorld, bundle, 0, "dir", FALSE, FALSE,
                               {}, {}).w}
                 ELSE {}) :
        /\ dirs = w.dirs
        /\ fs = w.fs
        /\ backups = w.backups
        /\ state = w.state
    /\ result = NewResults("none", FALSE, FALSE, FALSE)
    /\ runs = 0
    /\ releases = 0
    /\ edits = 0
    /\ quiet = FALSE
    /\ prev = "none"

\* a second passes after a command
Tick ==
    /\ clock < MaxClock
    /\ runs > 0
    /\ clock' = clock + 1
    /\ UNCHANGED <<target, dirs, fs, backups, state, bundle, result,
                   runs, releases, edits, quiet, prev, aux>>

\* a new release of the tool changes, adds or removes one template of
\* the bundle an installation was made from
Release ==
    /\ releases < MaxReleases
    /\ state.installation.present
    /\ \E t \in AllTemplates, c \in {Absent} \cup (1..MaxContent) :
        /\ c # bundle[t]
        /\ bundle' = [bundle EXCEPT ![t] = c]
    /\ releases' = releases + 1
    /\ quiet' = FALSE
    /\ UNCHANGED <<target, dirs, fs, backups, state, clock, result,
                   runs, edits, prev, aux>>

\* the user creates, edits or deletes a customization file
UserEdit ==
    /\ edits < MaxEdits
    /\ target = "dir"
    /\ ClaudeDir \in dirs
    /\ \E l \in LocalFiles, v \in {Absent} \cup (Empty..MaxBytes) :
        /\ v # fs[Join(ClaudeDir, l)]
        /\ fs' = [fs EXCEPT ![Join(ClaudeDir, l)] = v]
        /\ dirs' = IF v = Absent THEN dirs
                   ELSE dirs \cup Ancestors(Join(ClaudeDir, l))
    /\ edits' = edits + 1
    /\ quiet' = FALSE
    /\ UNCHANGED <<target, backups, state, bundle, clock, result,
                   runs, releases, prev, aux>>

\* what the next command remembers of the last one
Summary(r) ==
    IF r.cmd = "update"
    THEN IF r.success /\ r.errors = <<>> /\ ~r.dry_run
         THEN "update_clean"
         ELSE IF r.success THEN "update_success" ELSE "update_failed"
    ELSE r.cmd

CommandFrame ==
    /\ quiet' = TRUE
    /\ prev' = IF quiet THEN Summary(result) ELSE "interrupted"
    /\ UNCHANGED <<target, bundle, clock, releases, edits, aux>>

\* acf init
InitCommand ==
    /\ runs < MaxRuns
    /\ \E force \in BOOLEAN, dry_run \in BOOLEAN, f \in Faults :
        \E r \in {InitRun(World, bundle, clock, target, force, dry_run,
                          f.unreadable, f.unwritable)} :
            /\ dirs' = r.w.dirs
            /\ fs' = r.w.fs
            /\ backups' = r.w.backups
            /\ state' = r.w.state
            /\ result' = r.result
    /\ runs' = runs + 1
    /\ CommandFrame

\* acf update
UpdateCommand ==
    /\ runs < MaxRuns
    /\ \E force \in BOOLEAN, dry_run \in BOOLEAN, preserve \in BOOLEAN,
          f \in Faults :
        \E r \in {UpdateRun(World, bundle, clock, dry_run, force, preserve,
                            f.unreadable, f.unwritable)} :
            /\ dirs' = r.w.dirs
            /\ fs' = r.w.fs
            /\ backups' = r.w.backups
            /\ state' = r.w.state
            /\ result' = r.result
    /\ runs' = runs + 1
    /\ CommandFrame

\* UpdateAnalyzer(...).analyze_changes()
Analyze ==
    /\ runs < MaxRuns
    /\ \E r \in {AnalyzeCall(World, bundle)} :
        /\ dirs' = r.w.dirs
        /\ fs' = r.w.fs
        /\ backups' = r.w.backups
        /\ state' = r.w.state
        /\ result' = r.result
    /\ runs' = runs + 1
    /\ CommandFrame

Next ==
    \/ Tick
    \/ Release
    \/ UserEdit
    \/ InitCommand
    \/ UpdateCommand
    \/ Analyze

Spec == Init /\ [][Next]_vars

\* ------------------------------------------------------------------------
\* The state machine of a ParameterSubstitutor
\* ------------------------------------------------------------------------
\* a target no command is run on
MainIdle ==
    /\ target = "dir"
    /\ bundle = [t \in AllTemplates |-> 1]
    /\ clock = 0
    /\ dirs = FreshWorld.dirs
    /\ fs = FreshWorld.fs
    /\ backups = FreshWorld.backups
    /\ state = FreshWorld.state
    /\ result = NewResults("none", FALSE, FALSE, FALSE)
    /\ runs = 0
    /\ releases = 0
    /\ edits = 0
    /\ quiet = FALSE
    /\ prev = "none"

\* the pieces template contents are made of
Fragments ==
    {Placeholder(<<"A">>), Placeholder(<<"B">>), Placeholder(<<"a">>),
     <<"{">> \o Placeholder(<<"A">>) \o <<"}">>,
     <<"{", "{">> \o Placeholder(<<"A">>) \o <<"}", "}">>,
     <<"{", "A", "}">>,
     <<"{", "{", " ", "A", " ", "}", "}">>,
     <<"{", "{", "A">>,
     <<"t">>}

RECURSIVE ContentsOf(_)
ContentsOf(n) ==
    IF n = 0
    THEN {<<>>}
    ELSE ContentsOf(n - 1)
            \cup {c \o f : c \in ContentsOf(n - 1), f \in Fragments}

Contents == ContentsOf(MaxFragments)

\* the names a mapping can hold and the values it can give them
Names == {<<"A">>, <<"B">>, <<"a">>}

ValuesOf(name) ==
    IF name = <<"A">> THEN {<<"v">>, None, Placeholder(<<"B">>)}
    ELSE IF name = <<"B">> THEN {<<"w">>}
    ELSE {<<"u">>}

Mappings ==
    UNION {{m \in [K -> UNION {ValuesOf(n) : n \in Names}] :
                \A n \in K : m[n] \in ValuesOf(n)} : K \in SUBSET Names}

SubstInit ==
    /\ MainIdle
    /\ McpIdle
    /\ ParamsIdle
    /\ parameters \in Mappings
    /\ substituted_params = {}
    /\ content = <<>>
    /\ outcome = NoOutcome
    /\ calls = 0

\* substitutor.substitute_content(c), then get_substituted_parameters()
SubstituteContentCall ==
    /\ calls < MaxCalls
    /\ \E c \in Contents :
        \E r \in {SubstituteContent(parameters, substituted_params, c)} :
            /\ content' = c
            /\ substituted_params' = r.substituted_params
            /\ outcome' =
                [raised |-> r.raised,
                 result |-> IF r.raised THEN None ELSE r.result,
                 listed |-> GetSubstitutedParameters(r.substituted_params)]
    /\ calls' = calls + 1
    /\ UNCHANGED <<parameters, main, mcp, params>>

SubstNext == SubstituteContentCall

SubstSpec == SubstInit /\ [][SubstNext]_vars

\* ------------------------------------------------------------------------
\* Properties
\* ------------------------------------------------------------------------
\* the step is a run of a command
CommandStep == runs' = runs + 1

\* the step writes nothing: no directory, file, backup or state changes
NoWrite ==
    /\ dirs' = dirs
    /\ fs' = fs
    /\ backups' = backups
    /\ state' = state

\* the customization files found below the configuration directory
Customizations == {r \in RelPaths : IsLocalName(r)}

TraceOps(r) == {r.trace[i].op : i \in 1..Len(r.trace)}

\* C1 - conflict gating: an update without force whose analysis is
\* update_available with conflicts returns success = FALSE, one warning per
\* conflicting file, one terminating error, and writes nothing at all.
C1_ConflictGating ==
    [][(/\ CommandStep
        /\ result'.cmd = "update"
        /\ ~result'.force
        /\ result'.analysis.status = "update_available"
        /\ result'.analysis.conflicts # {})
       => (/\ ~result'.success
           /\ LET cw == SelectSeq(result'.warnings,
                                  LAMBDA x : x.kind = "conflict")
              IN  /\ Len(cw) = Cardinality(result'.analysis.conflicts)
                  /\ {cw[i].path : i \in 1..Len(cw)}
                        = result'.analysis.conflicts
           /\ Len(result'.errors) = 1
           /\ result'.errors[1].kind = "conflicts_detected"
           /\ result'.trace = <<>>
           /\ NoWrite)]_vars

\* an update without force was stopped by a non-empty customization
C1_Witness ==
    /\ result.cmd = "update"
    /\ ~result.force
    /\ ~result.dry_run
    /\ result.analysis.status = "update_available"
    /\ result.analysis.conflicts # {}
    /\ \E r \in result.analysis.conflicts : fs[Join(ClaudeDir, r)] > Empty

\* C2 - preservation round-trip: every customization file present before
\* an update run with force holds the same bytes after the run.
C2_PreservationRoundTrip ==
    [][(/\ CommandStep
        /\ result'.cmd = "update"
        /\ result'.force)
       => \A r \in Customizations :
            fs[Join(ClaudeDir, r)] # Absent
                => fs'[Join(ClaudeDir, r)] = fs[Join(ClaudeDir, r)]]_vars

\* a forced update backed up a non-empty customization, redeployed the
\* templates and restored the customization
C2_Witness ==
    /\ result.cmd = "update"
    /\ result.force
    /\ ~result.dry_run
    /\ \E r \in result.analysis.conflicts :
        /\ fs[Join(ClaudeDir, r)] > Empty
        /\ \E i, j, k \in 1..Len(result.trace) :
            /\ i < j /\ j < k
            /\ result.trace[i] = Event("backup", r)
            /\ result.trace[j].op = "deploy"
            /\ result.trace[k] = Event("restore", r)

\* C3 as stated - idempotence: the second of two update runs in succession
\* with no bundle change between them finds up_to_date and writes nothing
\* (stated for a first run that returned success).
C3_Idempotence ==
    [][(/\ CommandStep
        /\ result'.cmd = "update"
        /\ prev' \in {"update_clean", "update_success"})
       => (/\ result'.analysis.status = "up_to_date"
           /\ result'.trace = <<>>
           /\ NoWrite)]_vars

\* C3 as amended - the second of two update runs in succession finds
\* up_to_date and writes nothing when the first run returned success with
\* no error and was not a dry run.
C3_IdempotenceAfterCleanUpdate ==
    [][(/\ CommandStep
        /\ result'.cmd = "update"
        /\ prev' = "update_clean")
       => (/\ result'.analysis.status = "up_to_date"
           /\ result'.trace = <<>>
           /\ NoWrite)]_vars

\* an update deployed a new release and the update run right after it
\* found nothing to do
C3_Witness ==
    /\ result.cmd = "update"
    /\ prev = "update_clean"
    /\ releases >= 1
    /\ runs = 2
    /\ result.analysis.status = "up_to_date"

\* C4 - dry run: InitCommand.run and UpdateCommand.run with dry_run create
\* no directory, write no file, no backup and no state.
C4_DryRunNoSideEffect ==
    [][(/\ CommandStep
        /\ result'.cmd \in {"init", "update"}
        /\ result'.dry_run)
       => (NoWrite /\ result'.trace = <<>>)]_vars

\* a dry run of an update that would have preserved a customization and
\* deployed templates
C4_Witness ==
    /\ result.cmd = "update"
    /\ result.dry_run
    /\ result.success
    /\ result.files_updated # <<>>
    /\ result.files_preserved # {}

\* the analysis of the target as it is now
CurrentAnalysis == AnalyzeChanges(state, bundle, fs, dirs)

\* what the last command would have reported with dry_run flipped, from
\* the same starting state, every template being readable and writable
FlippedRun(r) ==
    IF r.cmd = "init"
    THEN InitRun(World, bundle, clock, target, r.force, ~r.dry_run,
                 {}, {}).result
    ELSE UpdateRun(World, bundle, clock, ~r.dry_run, r.force, r.preserve,
                   {}, {}).result

\* C5 - dry-run report equivalence: a dry run reports the same
\* files_created (init) and files_updated (update) as the run without
\* dry_run reports from the same starting state and the same inputs
\* (stated for runs that meet no per-file error).
C5_DryRunReportEquivalence ==
    [][(/\ CommandStep
        /\ result'.cmd \in {"init", "update"}
        /\ result'.errors = <<>>
        /\ FlippedRun(result').errors = <<>>)
       => (/\ SeqToSet(result'.files_created)
                = SeqToSet(FlippedRun(result').files_created)
           /\ SeqToSet(result'.files_updated)
                = SeqToSet(FlippedRun(result').files_updated))]_vars

\* C6 - state invariant: in every persisted installation state,
\* templates.checksum is the aggregate checksum of exactly the files
\* recorded in templates.files.
C6_StateInvariant ==
    state.installation.present => state.checksum = RecordedChecksum(state)

\* the per-file errors of a deploy pass
DeployErrors(r) ==
    {r.errors[i].path :
        i \in {j \in 1..Len(r.errors) :
                r.errors[j].kind \in {"could_not_read", "error_deploying"}}}

\* C7 - a run whose deploy pass recorded an error for a template writes no
\* state under which an analysis against the same bundle returns
\* up_to_date while that template is still undeployed.
C7_PartialNeverUpToDate ==
    \A t \in AllTemplates :
        (/\ result.cmd \in {"init", "update"}
         /\ quiet
         /\ t \in DeployErrors(result)
         /\ "state" \in TraceOps(result))
        => ~(/\ CurrentAnalysis.status = "up_to_date"
             /\ fs[MapTemplateToTarget(t)] # Render(bundle[t]))

\* C8 - an update that proceeds past conflict gating without dry_run
\* writes the destination of no template other than the new and updated
\* ones.
C8_DeploysOnlyChanged ==
    (/\ result.cmd = "update"
     /\ ~result.dry_run
     /\ result.analysis.status = "update_available"
     /\ ~ConflictGate(result.analysis, result.force))
    => \A i \in 1..Len(result.trace) :
            result.trace[i].op = "deploy"
                => \E t \in TemplatesToUpdate(result.analysis) :
                        result.trace[i].path = MapTemplateToTarget(t)

\* C9 - status classification: the status is one of three; not_initialized
\* iff the state has no installation record; up_to_date iff an installation
\* exists and the stored checksum equals the bundle checksum;
\* update_available otherwise; the first two have needs_update false and
\* all five lists empty.
C9_StatusClassification ==
    LET a == CurrentAnalysis
    IN  /\ a.status \in {"not_initialized", "up_to_date", "update_available"}
        /\ (a.status = "not_initialized") <=> ~state.installation.present
        /\ (a.status = "up_to_date") <=>
                (/\ state.installation.present
                 /\ state.checksum = BundleChecksum(bundle))
        /\ a.status = "update_available" => a.needs_update
        /\ a.status \in {"not_initialized", "up_to_date"} =>
                /\ ~a.needs_update
                /\ a.new_templates = {}
                /\ a.updated_templates = {}
                /\ a.removed_templates = {}
                /\ a.conflicts = {}
                /\ a.preserved_customizations = {}

\* an update found update_available, deployed, and the target is now
\* up to date against the bundle
C9_Witness ==
    /\ result.cmd = "update"
    /\ result.analysis.status = "update_available"
    /\ "state" \in TraceOps(result)
    /\ CurrentAnalysis.status = "up_to_date"

\* the class an analysis reports for a path
ReportedClass(a, p) ==
    <<p \in a.new_templates, p \in a.updated_templates,
      p \in a.removed_templates>>

\* the paths of the bundle
Available(b) == {t \in AllTemplates : b[t] # Absent}

\* the per-file classification of an update_available analysis
C10_Static(a, st, b) ==
    a.status = "update_available" =>
        /\ \A p \in DOMAIN st.files \cup Available(b) :
            /\ p \in a.new_templates <=>
                    (p \in Available(b) /\ p \notin DOMAIN st.files)
            /\ p \in a.removed_templates <=>
                    (p \in DOMAIN st.files /\ p \notin Available(b))
            /\ p \in a.updated_templates <=>
                    (/\ p \in Available(b)
                     /\ p \in DOMAIN st.files
                     /\ st.files[p] # FileChecksum(b[p]))
        /\ a.new_templates \cap a.updated_templates = {}
        /\ a.new_templates \cap a.removed_templates = {}
        /\ a.updated_templates \cap a.removed_templates = {}
        /\ (a.new_templates \cup a.updated_templates
                \cup a.removed_templates)
                \subseteq (DOMAIN st.files \cup Available(b))

\* the state records exactly the bundle b
RecordsBundle(st, b) ==
    /\ st.installation.present
    /\ DOMAIN st.files = Available(b)
    /\ \A p \in Available(b) : st.files[p] = FileChecksum(b[p])

C12_ConflictDetectionRule ==
    LET a == CurrentAnalysis
        to_update == a.new_templates \cup a.updated_templates
        found == {r \in Customizations : fs[Join(ClaudeDir, r)] # Absent}
    IN  /\ a.status = "update_available" =>
                \A r \in found :
                    /\ r \in a.preserved_customizations <=>
                            \E t \in to_update :
                                \/ Contains(t, RemoveLocalMarker(r))
                                \/ EndsWith(t, RemoveLocalMarker(r))
                    /\ r \in a.conflicts <=>
                            /\ r \in a.preserved_customizations
                            /\ fs[Join(ClaudeDir, r)] > Empty
        /\ a.preserved_customizations \subseteq found
        /\ a.conflicts \subseteq a.preserved_customizations
        /\ to_update = {} =>
                (a.conflicts = {} /\ a.preserved_customizations = {})

\* an empty x.local.md is preserved, and no conflict, because its base
\* name x.md is a substring of the updated template s/x.md
C12_Witness ==
    /\ CurrentAnalysis.status = "update_available"
    /\ CurrentAnalysis.updated_templates = {T_SX}
    /\ CurrentAnalysis.new_templates = {}
    /\ fs[Join(ClaudeDir, L_X)] = Empty
    /\ CurrentAnalysis.preserved_customizations = {L_X}
    /\ CurrentAnalysis.conflicts = {}

\* the positions of the trace of r that hold an event of one of the ops
Positions(r, ops) == {i \in 1..Len(r.trace) : r.trace[i].op \in ops}

\* C13 - ordering of the update steps: in an update that proceeds past
\* conflict gating without dry_run, every backup is written before the
\* first write of the deploy pass, every restore comes after the last
\* write of the deploy pass, and the state is written only after the
\* restores and only if the deploy pass recorded no error.
C13_UpdateStepOrdering ==
    (/\ result.cmd = "update"
     /\ ~result.dry_run
     /\ result.analysis.status = "update_available"
     /\ ~ConflictGate(result.analysis, result.force))
    => /\ \A i \in Positions(result, {"backup"}) :
            \A j \in Positions(result, {"mkdir", "deploy", "restore",
                                        "state"}) : i < j
       /\ \A i \in Positions(result, {"mkdir", "deploy"}) :
            \A j \in Positions(result, {"restore", "state"}) : i < j
       /\ \A i \in Positions(result, {"restore"}) :
            \A j \in Positions(result, {"state"}) : i < j
       /\ Positions(result, {"state"}) # {} => result.errors = <<>>
       /\ Cardinality(Positions(result, {"state"})) <= 1

\* an update backed up a customization, deployed, restored it and then
\* wrote the state
C13_Witness ==
    /\ result.cmd = "update"
    /\ ~result.dry_run
    /\ result.preserve
    /\ Positions(result, {"backup"}) # {}
    /\ Positions(result, {"deploy"}) # {}
    /\ Positions(result, {"restore"}) # {}
    /\ result.trace[Len(result.trace)] = Event("state", StateFile)

\* an update that met a deploy error wrote no state
C13_WitnessNoState ==
    /\ result.cmd = "update"
    /\ ~result.dry_run
    /\ result.errors # <<>>
    /\ Positions(result, {"deploy"}) # {}
    /\ Positions(result, {"state"}) = {}

\* C14 - validation failures have zero side effects: init on a target that
\* does not exist, is not a directory, or already holds configuration
\* while force is off, and update on a target whose state has no
\* installation record, return success = FALSE with a non-empty errors
\* list and leave the target tree and the persisted state as they were.
C14_ValidationNoSideEffect ==
    [][(/\ CommandStep
        /\ \/ /\ result'.cmd = "init"
              /\ \/ target # "dir"
                 \/ /\ AcfDir \in dirs \/ ClaudeDir \in dirs
                    /\ ~result'.force
           \/ /\ result'.cmd = "update"
              /\ ~state.installation.present)
       => (/\ ~result'.success
           /\ result'.errors # <<>>
           /\ result'.trace = <<>>
           /\ NoWrite)]_vars

\* init without force and without dry_run was refused on a target that
\* holds an installation
C14_Witness ==
    /\ result.cmd = "init"
    /\ ~result.force
    /\ ~result.dry_run
    /\ target = "dir"
    /\ state.installation.present
    /\ ClaudeDir \in dirs
    /\ Len(result.errors) = 1
    /\ result.errors[1].kind = "already_exists"

\* the last command ran its deploy pass, without dry_run
DeployPassRan(r) ==
    /\ ~r.dry_run
    /\ \/ r.cmd = "init" /\ r.success
       \/ /\ r.cmd = "update"
          /\ r.success
          /\ r.analysis.status = "update_available"

\* C15 - state after a clean deploy: after init or update completes a
\* deploy pass without dry_run and with zero errors, the persisted state
\* has an installation record, templates.checksum is the bundle checksum,
\* templates.files holds exactly the available template paths with their
\* current checksums (removed templates are no longer recorded), and an
\* analysis made right afterwards returns up_to_date.
C15_StateAfterCleanDeploy ==
    [][(/\ CommandStep
        /\ DeployPassRan(result')
        /\ result'.errors = <<>>)
       => (/\ state'.installation.present
           /\ state'.checksum = BundleChecksum(bundle')
           /\ DOMAIN state'.files = Available(bundle')
           /\ \A t \in Available(bundle') :
                state'.files[t] = FileChecksum(bundle'[t])
           /\ AnalyzeChanges(state', bundle', fs', dirs').status
                = "up_to_date")]_vars

\* an update deployed a release that removed a template, with no error,
\* and the state no longer records that template
C15_Witness ==
    /\ result.cmd = "update"
    /\ DeployPassRan(result)
    /\ result.errors = <<>>
    /\ result.analysis.removed_templates # {}
    /\ quiet
    /\ DOMAIN state.files = Available(bundle)
    /\ CurrentAnalysis.status = "up_to_date"

\* C16 - reported updates: after an update that proceeds past conflict
\* gating, files_updated contains the deployed destination of every
\* template of new + updated that was deployed without error, also when
\* the destination name is the template path without its .template suffix.
C16_ReportedUpdates ==
    (/\ result.cmd = "update"
     /\ DeployPassRan(result))
    => \A t \in TemplatesToUpdate(result.analysis) :
            t \notin DeployErrors(result)
                => MapTemplateToTarget(t) \in SeqToSet(result.files_updated)

\* where C17 places a template, relative to the target root
PlacementOfC17(t) ==
    IF t = T_CLAUDE
    THEN <<"CLAUDE", ".md">>
    ELSE Join(ClaudeDir,
              IF EndsWith(t, <<".template">>)
              THEN SubSeq(t, 1, Len(t) - 1) ELSE t)

\* C17 - root document placement: the deployer writes the root document
\* template (CLAUDE.md) at the root of the target directory and not inside
\* the configuration directory; every other template keeps its relative
\* path under the configuration directory, its .template suffix stripped.
C17_RootDocumentPlacement ==
    (/\ result.cmd \in {"init", "update"}
     /\ DeployPassRan(result))
    => \A i \in Positions(result, {"deploy"}) :
            /\ result.trace[i].path \in {PlacementOfC17(t) : t \in AllTemplates}
            /\ result.trace[i].path # Join(ClaudeDir, <<"CLAUDE", ".md">>)

\* C18 - a per-file failure does not abort the batch: a template that
\* cannot be read or written adds one entry to errors and is not deployed,
\* every other template of the catalog is still deployed, and the command
\* completes.
C18_PerFileFailureIsolated ==
    [][(/\ CommandStep
        /\ DeployPassRan(result'))
       => LET failed == DeployErrors(result')
              deployed == {result'.trace[i].path :
                              i \in Positions(result', {"deploy"})}
          IN  /\ result'.success
              /\ Len(result'.errors) = Cardinality(failed)
              /\ failed \subseteq Available(bundle)
              /\ \A t \in Available(bundle) :
                    IF t \in failed
                    THEN /\ MapTemplateToTarget(t) \notin deployed
                         /\ fs'[MapTemplateToTarget(t)]
                                = fs[MapTemplateToTarget(t)]
                         /\ MapTemplateToTarget(t)
                                \notin SeqToSet(result'.files_created)
                    ELSE /\ MapTemplateToTarget(t) \in deployed
                         /\ fs'[MapTemplateToTarget(t)] = Render(bundle[t])
                         /\ result'.cmd = "init"
                                => MapTemplateToTarget(t)
                                    \in SeqToSet(result'.files_created)]_vars

\* init could not write s/x.md, recorded one error for it, and deployed
\* the templates before and after it in the catalog
C18_Witness ==
    /\ result.cmd = "init"
    /\ DeployPassRan(result)
    /\ Len(result.errors) = 1
    /\ result.errors[1] = Error("error_deploying", T_SX)
    /\ \E i, j \in Positions(result, {"deploy"}) :
        /\ i < j
        /\ result.trace[i].path = MapTemplateToTarget(T_CLAUDE)
        /\ result.trace[j].path = MapTemplateToTarget(T_X)

\* the backup files the step wrote
BackupsWritten ==
    {BackupFile(clock, result'.trace[i].path) :
        i \in Positions(result', {"backup"})}

\* C19 - backup namespaces never collide: every invocation of
\* preserve_during_update writes into a fresh backup namespace, so no
\* invocation writes a backup location an earlier one wrote, also when
\* both start within the same clock second.
C19_BackupNamespacesFresh ==
    [][(/\ CommandStep
        /\ result'.cmd = "update")
       => \A k \in BackupsWritten : backups[k] = Absent]_vars

\* the customization files present in a tree
PresentCustomizations(f) ==
    {r \in Customizations : f[Join(ClaudeDir, r)] # Absent}

\* C20 - customization files are never created or deleted by the
\* commands: the set of customization files (names containing .local.)
\* under the configuration directory after a run of init or update equals
\* the set before it.
C20_CustomizationsNeitherCreatedNorDeleted ==
    [][(/\ CommandStep
        /\ result'.cmd \in {"init", "update"})
       => PresentCustomizations(fs') = PresentCustomizations(fs)]_vars

\* init with force redeployed the templates over a target that holds a
\* customization file, which is still there
C20_Witness ==
    /\ result.cmd = "init"
    /\ result.force
    /\ DeployPassRan(result)
    /\ Positions(result, {"deploy"}) # {}
    /\ quiet
    /\ PresentCustomizations(fs) # {}

\* ------------------------------------------------------------------------
\* The state machine of the MCP server
\* ------------------------------------------------------------------------
McpInit ==
    /\ MainIdle
    /\ SubstitutorIdle
    /\ ParamsIdle
    /\ McpIdle

\* some other call is waiting for its client
OtherAwaiting(i) ==
    \E j \in DOMAIN tool_calls : j # i /\ tool_calls[j].pc = "awaiting"

\* a tool is called: get_openai_client() and the client method up to its
\* await; the calls already waiting now have a call running beside them
InvokeTool(i) ==
    /\ tool_calls[i].pc = "idle"
    /\ \E tool \in StructuredTools :
        tool_calls' =
            [j \in DOMAIN tool_calls |->
                IF j = i
                THEN [tool_calls[i] EXCEPT
                        !.tool = tool, !.pc = "awaiting",
                        !.concurrent = OtherAwaiting(i)]
                ELSE IF tool_calls[j].pc = "awaiting"
                THEN [tool_calls[j] EXCEPT !.concurrent = TRUE]
                ELSE tool_calls[j]]
    /\ openai_client' = "client"
    /\ UNCHANGED <<main, substitutor, params>>

\* get_openai_client() cannot construct the client: the exception is
\* caught by the tool, openai_client stays None
InvokeToolWithoutClient(i) ==
    /\ tool_calls[i].pc = "idle"
    /\ openai_client = "None"
    /\ \E tool \in StructuredTools :
        tool_calls' =
            [tool_calls EXCEPT ![i] =
                [@ EXCEPT
                    !.tool = tool, !.pc = "done",
                    !.response = [kind |-> "raise", has_error |-> FALSE,
                                  data |-> "missing"],
                    !.returned = ToolReturn(tool, [kind |-> "raise",
                                                   has_error |-> FALSE,
                                                   data |-> "missing"])]]
    /\ UNCHANGED <<openai_client, main, substitutor, params>>

\* the client call of a tool ends and the tool returns
CompleteTool(i) ==
    /\ tool_calls[i].pc = "awaiting"
    /\ \E response \in ClientResponses :
        tool_calls' =
            [tool_calls EXCEPT ![i] =
                [@ EXCEPT
                    !.pc = "done",
                    !.response = response,
                    !.returned = ToolReturn(tool_calls[i].tool, response)]]
    /\ UNCHANGED <<openai_client, main, substitutor, params>>

McpNext ==
    \E i \in 1..MaxToolCalls :
        \/ InvokeTool(i)
        \/ InvokeToolWithoutClient(i)
        \/ CompleteTool(i)

McpSpec == McpInit /\ [][McpNext]_vars

\* ------------------------------------------------------------------------
\* The state machine of the template parameters: one repository, init and
\* update each building their parameters from it
\* ------------------------------------------------------------------------
GhResults ==
    {NoEnvironment.gh}
    \cup [ok : {TRUE}, owner : {None, <<"octo">>}, name : {None, <<"proj">>},
          url : {None, <<"https://github.com/", "octo", "/", "proj">>}]

Environments ==
    [gh : GhResults, remote : BOOLEAN, dir_name : {<<>>, <<"repo">>}]

ParamInit ==
    /\ MainIdle
    /\ SubstitutorIdle
    /\ McpIdle
    /\ environment \in Environments
    /\ init_call = NoParameters
    /\ update_call = NoParameters

\* InitCommand.run lines 305-320 (not interactive)
InitPrepareParameters ==
    /\ ~init_call.called
    /\ \E github_owner \in {None, <<"me">>}, project_name \in {None, <<"mine">>} :
        init_call' =
            [called |-> TRUE, github_owner |-> github_owner,
             project_name |-> project_name,
             parameters |->
                PrepareParameters(OverrideWith(DetectGithubInfo(environment),
                                               github_owner, project_name))]
    /\ UNCHANGED <<environment, update_call, main, substitutor, mcp>>

\* UpdateCommand._perform_update lines 357-373 on the initialized repository
UpdatePrepareParameters ==
    /\ init_call.called
    /\ ~update_call.called
    /\ update_call' =
            [called |-> TRUE, github_owner |-> None, project_name |-> None,
             parameters |-> UpdateParameters(DetectGithubInfo(environment))]
    /\ UNCHANGED <<environment, init_call, main, substitutor, mcp>>

ParamNext == InitPrepareParameters \/ UpdatePrepareParameters

ParamSpec == ParamInit /\ [][ParamNext]_vars

\* ------------------------------------------------------------------------
\* Properties of the ParameterSubstitutor (specification SubstSpec)
\* ------------------------------------------------------------------------
\* a call of substitute_content was made
Called == calls > 0

\* every value of the mapping is a string
StringValued(m) == \A n \in DOMAIN m : m[n] # None

\* the names of the tokens {{NAME}} that occur in s
TokenNames(s) == SeqToSet(FindIter(s, 1))

\* one simultaneous replacement: every token of s from i on whose name is
\* a key of m gives way to the key's value, every other character stays
RECURSIVE ReplaceTokens(_, _, _)
ReplaceTokens(s, m, i) ==
    IF i > Len(s)
    THEN <<>>
    ELSE IF MatchAt(s, i) = 0
    THEN <<s[i]>> \o ReplaceTokens(s, m, i + 1)
    ELSE (IF SubSeq(s, i + 2, i + 1 + MatchAt(s, i)) \in DOMAIN m
          THEN m[SubSeq(s, i + 2, i + 1 + MatchAt(s, i))]
          ELSE SubSeq(s, i, i + 3 + MatchAt(s, i)))
         \o ReplaceTokens(s, m, i + MatchAt(s, i) + 4)

\* C21 - substitution core: substitute_content replaces every occurrence of
\* each {{NAME}} token whose NAME is a key by that key's value and leaves
\* every other character unchanged (tokens that are no key and malformed
\* tokens stay verbatim), so content in which no token name is a key comes
\* back as it went in.
C21_SubstitutionCore ==
    (Called /\ StringValued(parameters))
    => /\ ~outcome.raised
       /\ outcome.result = ReplaceTokens(content, parameters, 1)
       /\ TokenNames(content) \cap DOMAIN parameters = {}
            => outcome.result = content

\* C22 - doubled or nested braces are not matched: for a key X, content
\* {{{X}}} or {{{{X}}}} comes back unchanged.
C22_NestedBracesUnchanged ==
    (/\ Called
     /\ <<"A">> \in DOMAIN parameters
     /\ parameters[<<"A">>] # None
     /\ content \in {<<"{">> \o Placeholder(<<"A">>) \o <<"}">>,
                     <<"{", "{">> \o Placeholder(<<"A">>) \o <<"}", "}">>})
    => (~outcome.raised /\ outcome.result = content)

\* C23 - null parameter value: when a key has the value None, every
\* occurrence of its token is replaced by the empty string, the key is
\* recorded as substituted, and no error is raised.
C23_NoneValueIsEmptyString ==
    \A n \in DOMAIN parameters :
        (/\ Called
         /\ parameters[n] = None
         /\ n \in TokenNames(content))
        => /\ ~outcome.raised
           /\ ~Contains(outcome.result, Placeholder(n))
           /\ n \in SeqToSet(outcome.listed)

\* C24 - record of substituted parameters: get_substituted_parameters
\* returns, sorted and without duplicates, exactly the names whose token
\* occurred in substituted content and was a key of the mapping.
C24_RecordOfSubstituted ==
    [][calls' = calls + 1
       => outcome'.listed
            = Sorted(substituted_params
                     \cup (TokenNames(content') \cap DOMAIN parameters))]_vars

\* C25 - case-sensitive names: a token is matched against the keys by
\* exact case, whatever the case: with a key param, {{param}} is replaced
\* by the value of param and param is recorded as substituted.
C25_LowerCaseKeySubstituted ==
    (/\ Called
     /\ <<"a">> \in DOMAIN parameters
     /\ content = Placeholder(<<"a">>))
    => /\ ~outcome.raised
       /\ outcome.result = parameters[<<"a">>]
       /\ <<"a">> \in SeqToSet(outcome.listed)

\* C28 - substituted values are not re-scanned: text inserted as the value
\* of a parameter is never itself substituted, even when the value holds a
\* token of another key that also occurs in the content.
C28_ValuesNotRescanned ==
    \A n \in DOMAIN parameters, k \in DOMAIN parameters :
        (/\ Called
         /\ StringValued(parameters)
         /\ n # k
         /\ Contains(parameters[n], Placeholder(k))
         /\ {n, k} \subseteq TokenNames(content))
        => /\ ~outcome.raised
           /\ outcome.result = ReplaceTokens(content, parameters, 1)

\* ------------------------------------------------------------------------
\* Properties of the MCP server (specification McpSpec)
\* ------------------------------------------------------------------------
Done(i) == tool_calls[i].pc = "done"

C27_MalformedSuccessResponses ==
    \A i \in DOMAIN tool_calls :
        (/\ Done(i)
         /\ tool_calls[i].tool = "extract_data"
         /\ tool_calls[i].response.kind = "object"
         /\ ~tool_calls[i].response.has_error)
            => \/ tool_calls[i].returned.kind = "json"
               \/ /\ tool_calls[i].returned.kind = "text"
                  /\ tool_calls[i].returned.prefix = "Error extracting data: "

\* ------------------------------------------------------------------------
\* Properties of the template parameters (specification ParamSpec)
\* ------------------------------------------------------------------------
\* C29: init and update use the same parameter values: with no command-line
\* overrides, _perform_update builds the same GITHUB_OWNER, PROJECT_NAME and
\* REPO_URL as _prepare_parameters for the same detected metadata, the
\* fallbacks of an undetected field included
C29_SameParameterValues ==
    (/\ init_call.called
     /\ update_call.called
     /\ init_call.github_owner = None
     /\ init_call.project_name = None)
        => update_call.parameters = init_call.parameters

\* ------------------------------------------------------------------------
\* Result consistency of the commands (specification Spec)
\* ------------------------------------------------------------------------
\* C30: result consistency: in every result returned by InitCommand.run or
\* UpdateCommand.run, on every path, success is TRUE if and only if the
\* errors list is empty
C30_SuccessIffNoErrors ==
    result.cmd \in {"init", "update"}
        => (result.success <=> result.errors = <<>>)

====
